---- MODULE Spec2Model ----
(***************************************************************************)
(* Text drawing of imageproc: src/src/drawing/text.rs.                     *)
(*                                                                         *)
(*   layout_paragraph  lays the characters of a text out as glyphs         *)
(*   draw_text_mut     lays out, shrinks scale.x when the layout is wider  *)
(*                     than max_width, lays out again, rasterizes, blends  *)
(*   draw_text         copies the image and calls draw_text_mut on it      *)
(*                                                                         *)
(* f32 values are modelled as exact rationals <<n, d>> in lowest terms     *)
(* with d > 0: rounding of f32 arithmetic is not modelled.  Pixels are     *)
(* tuples of u8 channels.                                                  *)
(***************************************************************************)
EXTENDS Integers, Sequences, FiniteSets, TLC

VARIABLES
    op,          \* the public function called
    pc,          \* position in that call
    text,        \* argument text, a sequence of characters
    position,    \* argument position (layout_paragraph), point(x, y) (draw_text_mut)
    scale,       \* argument scale: PxScale {x, y}
    max_width,   \* argument max_width: u32
    image,       \* draw_text: the input image
    canvas,      \* draw_text_mut: the canvas; draw_text: the copy `out`
    policy,      \* what the Canvas does with coordinates out of range
    font_scale,  \* the scale of the ScaleFont the running layout_paragraph got
    i,           \* layout_paragraph: index of the next character of text
    caret,       \* layout_paragraph: caret
    last_glyph,  \* layout_paragraph: last_glyph, <<>> is None, <<g>> is Some(g)
    glyphs,      \* the Vec<Glyph> (target of layout_paragraph, glyphs of draw_text_mut)
    ret,         \* where the running layout_paragraph returns to
    new_scale,   \* draw_text_mut: new_scale once computed, <<>> before
    gi,          \* rasterization: index of the glyph being drawn
    si,          \* rasterization: index of the next coverage sample of that glyph
    panic,       \* "" or the panic that ended the call
    hist         \* history: what the call was given and what it did so far

vars == <<op, pc, text, position, scale, max_width, image, canvas, policy,
          font_scale, i, caret, last_glyph, glyphs, ret, new_scale, gi, si,
          panic, hist>>

-----------------------------------------------------------------------------
(* Bounds of the model *)

MaxLayoutLen == 4      \* longest text given to layout_paragraph alone
MaxDrawLen == 2        \* longest text given to draw_text_mut / draw_text

-----------------------------------------------------------------------------
(* f32 as exact rationals *)

Abs(n) == IF n < 0 THEN -n ELSE n

RECURSIVE GCD(_, _)
GCD(a, b) == IF b = 0 THEN a ELSE GCD(b, a % b)

Rat(n, d) ==
    LET s == IF d < 0 THEN -1 ELSE 1
        g == GCD(Abs(n), Abs(d))
    IN  <<(s * n) \div g, (s * d) \div g>>

R(n) == <<n, 1>>
RAdd(a, b) == Rat(a[1] * b[2] + b[1] * a[2], a[2] * b[2])
RSub(a, b) == Rat(a[1] * b[2] - b[1] * a[2], a[2] * b[2])
RMul(a, b) == Rat(a[1] * b[1], a[2] * b[2])
RDiv(a, b) == Rat(a[1] * b[2], a[2] * b[1])
RLt(a, b) == a[1] * b[2] < b[1] * a[2]
RLe(a, b) == a[1] * b[2] <= b[1] * a[2]
Floor(a) == a[1] \div a[2]
Ceil(a) == -((-a[1]) \div a[2])

point(px, py) == [x |-> px, y |-> py]

-----------------------------------------------------------------------------
(* The Font collaborator (ab_glyph): one font, in font units.  A scaled    *)
(* font multiplies horizontal metrics by scale.x / height_unscaled and     *)
(* vertical ones by scale.y / height_unscaled.                             *)

Chars == {"a", "j", " ", "\n", "\t"}

\* "a": plain letter; "j": ink left of its origin and above the ascent;
\* " ": advance only, no outline; a character the font has no glyph for
\* (the control characters) gets an empty glyph with an advance.  Boxes are <<x_min, x_max, y_min, y_max>>,
\* y upwards from the baseline.
font ==
    [ascent_unscaled   |-> 3,
     descent_unscaled  |-> -1,
     line_gap_unscaled |-> 1,
     h_advance_unscaled |-> [c \in Chars |->
                               CASE c = "a" -> 4 [] c = "j" -> 2 [] OTHER -> 2],
     kern_unscaled |-> [p \in Chars \X Chars |->
                               IF p = <<"a", "j">> THEN -1 ELSE 0],
     outline |-> [c \in Chars |->
                               CASE c = "a" -> <<<<0, 2, 0, 2>>>>
                                 [] c = "j" -> <<<<-1, 1, 3, 4>>>>
                                 [] OTHER -> <<>>]]

height_unscaled == font.ascent_unscaled - font.descent_unscaled

h_scale_factor(sf) == RDiv(sf.x, R(height_unscaled))
v_scale_factor(sf) == RDiv(sf.y, R(height_unscaled))
ascent(sf) == RMul(v_scale_factor(sf), R(font.ascent_unscaled))
descent(sf) == RMul(v_scale_factor(sf), R(font.descent_unscaled))
height(sf) == RSub(ascent(sf), descent(sf))
line_gap(sf) == RMul(v_scale_factor(sf), R(font.line_gap_unscaled))
h_advance(sf, id) == RMul(h_scale_factor(sf), R(font.h_advance_unscaled[id]))
kern(sf, first, second) ==
    RMul(h_scale_factor(sf), R(font.kern_unscaled[<<first, second>>]))
scaled_glyph(sf, c) ==
    [id |-> c, scale |-> sf, position |-> point(R(0), R(0))]

-----------------------------------------------------------------------------
(* layout_paragraph *)

\* char::is_control, on the characters of the model
is_control_tab_not(c) == c = "\n"
is_control(c) == c \in {"\n", "\t"}

\* let v_advance = font.height() + font.line_gap();
v_advance(sf) == RAdd(height(sf), line_gap(sf))

\* let mut caret = position + point(0.0, font.ascent());
caret_init(sf, pos) == point(pos.x, RAdd(pos.y, ascent(sf)))

\* caret = point(position.x, caret.y + v_advance);
newline_caret_keeps_x(sf, pos, c) == point(c.x, RAdd(c.y, v_advance(sf)))
newline_caret(sf, pos, c) == point(pos.x, RAdd(c.y, v_advance(sf)))

\* (variant of the loop body: caret.x = h_advance instead of caret.x += h_advance)
layout_char_sets_advance(sf, pos, c, st) ==
    IF is_control(c)
    THEN IF c = "\n"
         THEN [caret |-> newline_caret(sf, pos, st.caret),
               last_glyph |-> <<>>,
               target |-> st.target]
         ELSE st
    ELSE LET glyph0 == scaled_glyph(sf, c)
             cx == IF st.last_glyph # <<>>
                   THEN RAdd(st.caret.x, kern(sf, st.last_glyph[1].id, glyph0.id))
                   ELSE st.caret.x
             glyph == [glyph0 EXCEPT !.position = point(cx, st.caret.y)]
         IN  [caret |-> point(h_advance(sf, glyph.id), st.caret.y),
              last_glyph |-> <<glyph>>,
              target |-> Append(st.target, glyph)]

\* One pass of the loop body, on the loop's state
\* st = [caret, last_glyph, target], for the character c.
layout_char(sf, pos, c, st) ==
    IF is_control(c)
    THEN IF c = "\n"
         THEN [caret |-> newline_caret(sf, pos, st.caret),
               last_glyph |-> <<>>,
               target |-> st.target]
         ELSE st
    ELSE LET glyph0 == scaled_glyph(sf, c)
             cx == IF st.last_glyph # <<>>
                   THEN RAdd(st.caret.x, kern(sf, st.last_glyph[1].id, glyph0.id))
                   ELSE st.caret.x
             glyph == [glyph0 EXCEPT !.position = point(cx, st.caret.y)]
         IN  [caret |-> point(RAdd(cx, h_advance(sf, glyph.id)), st.caret.y),
              last_glyph |-> <<glyph>>,
              target |-> Append(st.target, glyph)]

\* The whole of layout_paragraph as a function: the loop over text.chars().
RECURSIVE layout_loop(_, _, _, _, _)
layout_loop(sf, pos, txt, k, st) ==
    IF k > Len(txt) THEN st
    ELSE layout_loop(sf, pos, txt, k + 1, layout_char(sf, pos, txt[k], st))

layout_paragraph(sf, pos, txt, target) ==
    layout_loop(sf, pos, txt, 1,
                [caret |-> caret_init(sf, pos), last_glyph |-> <<>>,
                 target |-> target]).target

-----------------------------------------------------------------------------
(* Images and the Canvas collaborator *)

CanvasWidth == 6
CanvasHeight == 4

Coords(w, h) == (0 .. w - 1) \X (0 .. h - 1)

\* ImageBuffer::new(width, height): every channel zero
image_new(w, h) ==
    [width |-> w, height |-> h, px |-> [p \in Coords(w, h) |-> <<0, 0, 0>>]]

\* out.copy_from(image, 0, 0): every pixel of image over the same place of out
copy_from_nothing(out, img) == out
copy_from(out, img) ==
    [out EXCEPT !.px = [p \in DOMAIN out.px |->
                           IF p \in DOMAIN img.px THEN img.px[p] ELSE out.px[p]]]

NoImage == [width |-> 0, height |-> 0, px |-> [p \in Coords(0, 0) |-> <<0, 0, 0>>]]

\* The picture the calls are given: every pixel different from its neighbours
\* and from the text color.
Canvas0 ==
    [width |-> CanvasWidth, height |-> CanvasHeight,
     px |-> [p \in Coords(CanvasWidth, CanvasHeight) |->
                <<40 * p[1], 60 * p[2], 100>>]]

\* Rgb([0u8, 0u8, 255u8]), the color of examples/font.rs
color == <<0, 0, 255>>

in_bounds(c, px, py) == px < c.width /\ py < c.height

\* Clamp<f32> for u8: the f32 cut to 0 ..= 255 and truncated
Clamp(v) ==
    IF RLt(v, R(255)) THEN (IF RLt(R(0), v) THEN Floor(v) ELSE 0) ELSE 255

\* pixelops::weighted_sum: per channel left * left_weight + right * right_weight,
\* clamped back into the channel
weighted_sum(left, right, left_weight, right_weight) ==
    [ch \in DOMAIN left |->
        Clamp(RAdd(RMul(R(left[ch]), left_weight), RMul(R(right[ch]), right_weight)))]

-----------------------------------------------------------------------------
(* draw_text_mut *)

\* let last_glyph = &glyphs[glyphs.len() - 1];
\* let actual_width = last_glyph.position.x + last_glyph.scale.x;
actual_width(gs) == RAdd(gs[Len(gs)].position.x, gs[Len(gs)].scale.x)

\* if actual_width > max_width as f32
too_wide_or_equal(aw, mw) == RLe(R(mw), aw)
too_wide(aw, mw) == RLt(R(mw), aw)

\* let shrink_factor = actual_width / (max_width as f32);
\* let new_scale = PxScale { x: scale.x / shrink_factor, y: scale.y };
\* Only called with actual_width > max_width >= 0: with max_width = 0 the
\* shrink_factor is +inf and scale.x / +inf is 0.
shrink_uniform(sc, aw, mw) ==
    IF mw = 0 THEN [x |-> R(0), y |-> R(0)]
    ELSE [x |-> RDiv(sc.x, RDiv(aw, R(mw))), y |-> RDiv(sc.y, RDiv(aw, R(mw)))]
shrink(sc, aw, mw) ==
    IF mw = 0 THEN [x |-> R(0), y |-> sc.y]
    ELSE [x |-> RDiv(sc.x, RDiv(aw, R(mw))), y |-> sc.y]

\* scaled_font.outline_glyph(glyph): None for a glyph without outline;
\* the outline is made at the glyph's own scale and position.
has_outline(g) == font.outline[g.id] # <<>>

\* outlined.px_bounds(): the scaled box at the glyph's position, min rounded
\* down and max rounded up (pixel y grows downwards).
px_bounds(g) ==
    LET box == font.outline[g.id][1]
        hf == h_scale_factor(g.scale)
        vf == v_scale_factor(g.scale)
    IN  [min |-> point(Floor(RAdd(g.position.x, RMul(R(box[1]), hf))),
                       Floor(RSub(g.position.y, RMul(R(box[4]), vf)))),
         max |-> point(Ceil(RAdd(g.position.x, RMul(R(box[2]), hf))),
                       Ceil(RSub(g.position.y, RMul(R(box[3]), vf))))]

bounds_width(b) == b.max.x - b.min.x
bounds_height(b) == b.max.y - b.min.y

\* outlined.draw(|x, y, v| ..): one call per pixel of the box, row by row;
\* the coverage v of a pixel is 1, 1/2 or 0.
n_samples(g) == bounds_width(px_bounds(g)) * bounds_height(px_bounds(g))
coverage(lx, ly) ==
    CASE (lx + ly) % 3 = 0 -> R(1)
      [] (lx + ly) % 3 = 1 -> Rat(1, 2)
      [] OTHER -> R(0)
sample(g, k) ==
    LET w == bounds_width(px_bounds(g))
    IN  [x |-> k % w, y |-> k \div w, v |-> coverage(k % w, k \div w)]

\* `as u32` of an f32: saturating, a negative value gives 0
as_u32(n) == IF n < 0 THEN 0 ELSE n

\* let pixel_x = x + bounds.min.x as u32;  let pixel_y = y + bounds.min.y as u32;
pixel_at(smp, b) == <<smp.x + as_u32(b.min.x), smp.y + as_u32(b.min.y)>>

\* let weighted_color = weighted_sum(px, color, 1.0 - v, v);
weighted_color_swapped(px, col, v) == weighted_sum(px, col, v, RSub(R(1), v))
weighted_color(px, col, v) == weighted_sum(px, col, RSub(R(1), v), v)

-----------------------------------------------------------------------------
(* The arguments the calls are given *)

Texts(cs, n) == UNION {[1 .. k -> cs] : k \in 0 .. n}
\* two longer texts for draw_text_mut: two lines, and three glyphs on a line
LongTexts == {<<"a", "j", "\n", "a">>, <<"a", "j", "a">>}
Scales == {[x |-> R(sx), y |-> R(4)] : sx \in {0, 2, 4}}
Starts == {0, 1}                      \* x and y: u32
MaxWidths == {0, 3, 20}              \* max_width: u32
\* A Canvas fails or clips out of range; the ImageBuffer of draw_text fails.
Policies == {"panic", "clip"}
\* what target may hold when layout_paragraph is called
Targets ==
    {<<>>,
     <<[id |-> "j", scale |-> [x |-> R(2), y |-> R(4)],
        position |-> point(R(9), R(9))]>>}

Hist0(c0, t0, calls) ==
    [canvas0 |-> c0, target0 |-> t0, layout_calls |-> calls,
     cleared |-> FALSE, accessed |-> {}]

\* A call of layout_paragraph, its locals initialised (lines 17-19)
InitLayout ==
    /\ op = "layout_paragraph"
    /\ text \in Texts(Chars \ {" "}, MaxLayoutLen)
    /\ position \in {point(R(p), R(p)) : p \in Starts}
    /\ scale \in Scales
    /\ glyphs \in Targets
    /\ max_width = 0
    /\ image = NoImage
    /\ canvas = NoImage
    /\ policy = "panic"
    /\ font_scale = scale
    /\ pc = "layout"
    /\ ret = "done"
    /\ i = 1
    /\ caret = caret_init(scale, position)
    /\ last_glyph = <<>>
    /\ hist = Hist0(NoImage, glyphs, 1)

\* A call of draw_text_mut on a canvas, or of draw_text on an image
InitDraw ==
    /\ op \in {"draw_text_mut", "draw_text"}
    /\ text \in Texts(Chars, MaxDrawLen) \cup LongTexts
    /\ position \in {point(R(px), R(py)) : px \in Starts, py \in Starts}
    /\ scale \in Scales
    /\ max_width \in MaxWidths
    /\ policy \in IF op = "draw_text" THEN {"panic"} ELSE Policies
    /\ image = IF op = "draw_text" THEN Canvas0 ELSE NoImage
    /\ canvas = IF op = "draw_text" THEN NoImage ELSE Canvas0
    /\ glyphs = <<>>
    /\ font_scale = scale
    /\ pc = op
    /\ ret = "done"
    /\ i = 1
    /\ caret = position
    /\ last_glyph = <<>>
    /\ hist = Hist0(Canvas0, <<>>, 0)

Init ==
    /\ InitLayout \/ InitDraw
    /\ new_scale = <<>>
    /\ gi = 1
    /\ si = 0
    /\ panic = ""

-----------------------------------------------------------------------------
(* draw_text, lines 109-111: copy the image, then draw_text_mut on the copy *)

DrawTextCopy ==
    /\ pc = "draw_text"
    /\ canvas' = copy_from(image_new(image.width, image.height), image)
    /\ pc' = "draw_text_mut"
    /\ UNCHANGED <<op, text, position, scale, max_width, image, policy,
                   font_scale, i, caret, last_glyph, glyphs, ret, new_scale,
                   gi, si, panic, hist>>

(* draw_text_mut, lines 56-59: the first layout, at the scale given *)
FirstLayout ==
    /\ pc = "draw_text_mut"
    /\ glyphs' = <<>>
    /\ font_scale' = scale
    /\ caret' = caret_init(scale, position)
    /\ last_glyph' = <<>>
    /\ i' = 1
    /\ pc' = "layout"
    /\ ret' = "measure"
    /\ hist' = [hist EXCEPT !.layout_calls = @ + 1]
    /\ UNCHANGED <<op, text, position, scale, max_width, image, canvas,
                   policy, new_scale, gi, si, panic>>

(* layout_paragraph, lines 20-38: the loop body for the next character *)
LayoutChar ==
    /\ pc = "layout"
    /\ i <= Len(text)
    /\ LET st == layout_char(font_scale, position, text[i],
                             [caret |-> caret, last_glyph |-> last_glyph,
                              target |-> glyphs])
       IN  /\ caret' = st.caret
           /\ last_glyph' = st.last_glyph
           /\ glyphs' = st.target
    /\ i' = i + 1
    /\ UNCHANGED <<op, pc, text, position, scale, max_width, image, canvas,
                   policy, font_scale, ret, new_scale, gi, si, panic, hist>>

(* layout_paragraph, line 39: the text is used up *)
LayoutReturn ==
    /\ pc = "layout"
    /\ i > Len(text)
    /\ pc' = ret
    /\ UNCHANGED <<op, text, position, scale, max_width, image, canvas,
                   policy, font_scale, i, caret, last_glyph, glyphs, ret,
                   new_scale, gi, si, panic, hist>>

\* (variant: an empty list is taken for a text of width 0 and the call returns)
MeasureEmptyReturns ==
    /\ pc = "measure"
    /\ glyphs = <<>>
    /\ pc' = "done"
    /\ UNCHANGED <<op, text, position, scale, max_width, image, canvas,
                   policy, font_scale, i, caret, last_glyph, glyphs, ret,
                   new_scale, gi, si, panic, hist>>

(* draw_text_mut, line 61 with no glyph: glyphs.len() - 1 underflows.  With *)
(* overflow checks the subtraction panics, without them the index does.     *)
MeasureEmpty ==
    /\ pc = "measure"
    /\ glyphs = <<>>
    /\ pc' = "panicked"
    /\ panic' \in {"attempt to subtract with overflow", "index out of bounds"}
    /\ UNCHANGED <<op, text, position, scale, max_width, image, canvas,
                   policy, font_scale, i, caret, last_glyph, glyphs, ret,
                   new_scale, gi, si, hist>>

(* draw_text_mut, lines 61-63: the layout is not wider than max_width *)
MeasureFits ==
    /\ pc = "measure"
    /\ glyphs # <<>>
    /\ ~too_wide(actual_width(glyphs), max_width)
    /\ pc' = "raster"
    /\ UNCHANGED <<op, text, position, scale, max_width, image, canvas,
                   policy, font_scale, i, caret, last_glyph, glyphs, ret,
                   new_scale, gi, si, panic, hist>>

(* draw_text_mut, lines 61-71: too wide; clear, lay out again at new_scale *)
MeasureShrinks ==
    /\ pc = "measure"
    /\ glyphs # <<>>
    /\ too_wide(actual_width(glyphs), max_width)
    /\ LET ns == shrink(scale, actual_width(glyphs), max_width)
       IN  /\ new_scale' = <<ns>>
           /\ font_scale' = ns
           /\ caret' = caret_init(ns, position)
    /\ glyphs' = <<>>
    /\ last_glyph' = <<>>
    /\ i' = 1
    /\ pc' = "layout"
    /\ ret' = "raster"
    /\ hist' = [hist EXCEPT !.layout_calls = @ + 1, !.cleared = TRUE]
    /\ UNCHANGED <<op, text, position, scale, max_width, image, canvas,
                   policy, gi, si, panic>>

(* draw_text_mut, line 76: a glyph without outline is passed over *)
NoOutline ==
    /\ pc = "raster"
    /\ gi <= Len(glyphs)
    /\ ~has_outline(glyphs[gi])
    /\ gi' = gi + 1
    /\ UNCHANGED <<op, pc, text, position, scale, max_width, image, canvas,
                   policy, font_scale, i, caret, last_glyph, glyphs, ret,
                   new_scale, si, panic, hist>>

(* draw_text_mut, lines 79-87: the closure, on the next coverage sample, *)
(* at a place of the canvas                                               *)
DrawSample ==
    /\ pc = "raster"
    /\ gi <= Len(glyphs)
    /\ has_outline(glyphs[gi])
    /\ si < n_samples(glyphs[gi])
    /\ LET smp == sample(glyphs[gi], si)
           at == pixel_at(smp, px_bounds(glyphs[gi]))
       IN  /\ in_bounds(canvas, at[1], at[2])
           /\ canvas' = [canvas EXCEPT
                           !.px[at] = weighted_color(canvas.px[at], color, smp.v)]
           /\ hist' = [hist EXCEPT !.accessed = @ \cup {at}]
    /\ si' = si + 1
    /\ UNCHANGED <<op, pc, text, position, scale, max_width, image, policy,
                   font_scale, i, caret, last_glyph, glyphs, ret, new_scale,
                   gi, panic>>

(* lines 83-86 at a place outside the canvas, on a canvas that fails *)
DrawSampleOutside ==
    /\ pc = "raster"
    /\ gi <= Len(glyphs)
    /\ has_outline(glyphs[gi])
    /\ si < n_samples(glyphs[gi])
    /\ LET at == pixel_at(sample(glyphs[gi], si), px_bounds(glyphs[gi]))
       IN  ~in_bounds(canvas, at[1], at[2])
    /\ policy = "panic"
    /\ pc' = "panicked"
    /\ panic' = "canvas out of bounds"
    /\ UNCHANGED <<op, text, position, scale, max_width, image, canvas,
                   policy, font_scale, i, caret, last_glyph, glyphs, ret,
                   new_scale, gi, si, hist>>

(* lines 83-86 at a place outside the canvas, on a canvas that clips *)
DrawSampleClipped ==
    /\ pc = "raster"
    /\ gi <= Len(glyphs)
    /\ has_outline(glyphs[gi])
    /\ si < n_samples(glyphs[gi])
    /\ LET at == pixel_at(sample(glyphs[gi], si), px_bounds(glyphs[gi]))
       IN  ~in_bounds(canvas, at[1], at[2])
    /\ policy = "clip"
    /\ si' = si + 1
    /\ UNCHANGED <<op, pc, text, position, scale, max_width, image, canvas,
                   policy, font_scale, i, caret, last_glyph, glyphs, ret,
                   new_scale, gi, panic, hist>>

(* the closure was called for every sample of the glyph: next glyph *)
GlyphDrawn ==
    /\ pc = "raster"
    /\ gi <= Len(glyphs)
    /\ has_outline(glyphs[gi])
    /\ si >= n_samples(glyphs[gi])
    /\ gi' = gi + 1
    /\ si' = 0
    /\ UNCHANGED <<op, pc, text, position, scale, max_width, image, canvas,
                   policy, font_scale, i, caret, last_glyph, glyphs, ret,
                   new_scale, panic, hist>>

(* line 89/90 (and 112 of draw_text): every glyph was drawn, the call returns *)
Return ==
    /\ pc = "raster"
    /\ gi > Len(glyphs)
    /\ pc' = "done"
    /\ UNCHANGED <<op, text, position, scale, max_width, image, canvas,
                   policy, font_scale, i, caret, last_glyph, glyphs, ret,
                   new_scale, gi, si, panic, hist>>

Next ==
    \/ DrawTextCopy
    \/ FirstLayout
    \/ LayoutChar
    \/ LayoutReturn
    \/ MeasureEmpty
    \/ MeasureFits
    \/ MeasureShrinks
    \/ NoOutline
    \/ DrawSample
    \/ DrawSampleOutside
    \/ DrawSampleClipped
    \/ GlyphDrawn
    \/ Return

Spec == Init /\ [][Next]_vars

-----------------------------------------------------------------------------
(* One layout at the scale given, then every glyph drawn in order: what    *)
(* draw_text_mut does when it does not shrink, as a function.              *)

RECURSIVE raster_from(_, _, _, _, _)
raster_from(c, pol, gs, k, s) ==
    IF k > Len(gs) THEN [canvas |-> c, panicked |-> FALSE]
    ELSE IF ~has_outline(gs[k]) \/ s >= n_samples(gs[k])
    THEN raster_from(c, pol, gs, k + 1, 0)
    ELSE LET smp == sample(gs[k], s)
             at == pixel_at(smp, px_bounds(gs[k]))
         IN  IF in_bounds(c, at[1], at[2])
             THEN raster_from(
                     [c EXCEPT !.px[at] = weighted_color(c.px[at], color, smp.v)],
                     pol, gs, k, s + 1)
             ELSE IF pol = "panic" THEN [canvas |-> c, panicked |-> TRUE]
             ELSE raster_from(c, pol, gs, k, s + 1)

-----------------------------------------------------------------------------
(* Vocabulary of the properties *)

Drawing == op \in {"draw_text_mut", "draw_text"}

\* the first layout of draw_text_mut: the text at the scale given
Natural == layout_paragraph(scale, position, text, <<>>)
NaturalWidth == actual_width(Natural)

\* draw_text_mut is past the comparison of line 63
PastMeasure ==
    /\ Drawing
    /\ \/ pc \in {"raster", "done"}
       \/ pc = "layout" /\ ret = "raster"
       \/ pc = "panicked" /\ panic = "canvas out of bounds"

\* the list that is rasterized is complete
Laid == Drawing /\ (pc \in {"raster", "done"}
                    \/ (pc = "panicked" /\ panic = "canvas out of bounds"))

Range(f) == {f[k] : k \in DOMAIN f}
SingleLine == "\n" \notin Range(text)
RAbs(a) == <<Abs(a[1]), a[2]>>

InBox(p, b) ==
    /\ b.min.x <= p[1] /\ p[1] < b.max.x
    /\ b.min.y <= p[2] /\ p[2] < b.max.y
InSomeBox(p) ==
    \E k \in 1 .. Len(glyphs) : has_outline(glyphs[k]) /\ InBox(p, px_bounds(glyphs[k]))

-----------------------------------------------------------------------------
(* C1: when the first layout is wider than max_width > 0, the list that is *)
(* rasterized has width last.position.x + last.scale.x equal to max_width  *)
(* (here: within 1/1000 of it) and so not above it, for every start x >= 0 *)
(* and every single-line text.                                             *)
C1_ShrunkWidthIsMaxWidth ==
    (Laid /\ new_scale # <<>> /\ max_width > 0 /\ SingleLine)
        => /\ RLe(RAbs(RSub(actual_width(glyphs), R(max_width))), Rat(1, 1000))
           /\ RLe(actual_width(glyphs), RAdd(R(max_width), Rat(1, 1000)))

\* The same for calls that start at x = 0 only.
C1_ShrunkWidthIsMaxWidthFromZero ==
    (Laid /\ new_scale # <<>> /\ max_width > 0 /\ SingleLine /\ position.x = R(0))
        => actual_width(glyphs) = R(max_width)

(* C2: every pixel written lies inside the pixel bounding box of an        *)
(* outlined glyph of the final list, and every canvas pixel outside all    *)
(* those boxes keeps its value, also for boxes with negative min.x, min.y. *)
C2_WritesInsideGlyphBoxes ==
    Laid =>
        /\ \A p \in hist.accessed : InSomeBox(p)
        /\ \A p \in DOMAIN canvas.px :
              ~InSomeBox(p) => canvas.px[p] = hist.canvas0.px[p]

\* The same for calls in which no box has a negative min.
C2_WritesInsideNonNegativeBoxes ==
    (Laid /\ \A k \in 1 .. Len(glyphs) :
                has_outline(glyphs[k]) =>
                    /\ px_bounds(glyphs[k]).min.x >= 0
                    /\ px_bounds(glyphs[k]).min.y >= 0)
        => /\ \A p \in hist.accessed : InSomeBox(p)
           /\ \A p \in DOMAIN canvas.px :
                 ~InSomeBox(p) => canvas.px[p] = hist.canvas0.px[p]

(* C3 (as stated): whenever max_width is less than the natural width, the  *)
(* scale of the second layout has scale.x strictly smaller than the input  *)
(* scale.x and scale.y equal to the input scale.y, for every input scale.x *)
(* (0 included) and every start x.                                         *)
C3_ShrinkStrictlyDecreases ==
    (PastMeasure /\ Natural # <<>> /\ RLt(R(max_width), NaturalWidth))
        => /\ new_scale # <<>>
           /\ font_scale = new_scale[1]
           /\ RLt(new_scale[1].x, scale.x)
           /\ new_scale[1].y = scale.y

(* C3 (amended): whenever max_width is less than the natural width, the    *)
(* second layout runs at new_scale, every glyph of the rasterized list has *)
(* that scale, new_scale.y equals the input scale.y, and new_scale.x is    *)
(* strictly smaller than the input scale.x when that is positive and is 0  *)
(* when that is 0.                                                         *)
C3_ShrinkDecreasesPositiveScale ==
    (PastMeasure /\ Natural # <<>> /\ RLt(R(max_width), NaturalWidth))
        => /\ new_scale # <<>>
           /\ font_scale = new_scale[1]
           /\ \A k \in 1 .. Len(glyphs) : glyphs[k].scale = new_scale[1]
           /\ new_scale[1].y = scale.y
           /\ RLt(R(0), scale.x) => RLt(new_scale[1].x, scale.x)
           /\ scale.x = R(0) => new_scale[1].x = R(0)

\* a call that shrank a positive scale.x and drew the shrunk glyphs
C3_Witness ==
    /\ pc = "done"
    /\ new_scale # <<>>
    /\ RLt(R(0), new_scale[1].x)
    /\ RLt(new_scale[1].x, scale.x)
    /\ hist.accessed # {}

(* C4: when max_width >= the natural width, layout_paragraph runs exactly  *)
(* once, the glyph list is neither cleared nor replaced, and the canvas    *)
(* the call ends with is the canvas of one layout at the original scale    *)
(* followed by drawing each of its glyphs in order.                        *)
C4_NoShrinkIsSinglePass ==
    (PastMeasure /\ Natural # <<>> /\ ~RLt(R(max_width), NaturalWidth))
        => /\ hist.layout_calls = 1
           /\ ~hist.cleared
           /\ new_scale = <<>>
           /\ glyphs = Natural
           /\ pc \in {"done", "panicked"} =>
                LET one == raster_from(hist.canvas0, policy, Natural, 1, 0)
                IN  /\ canvas = one.canvas
                    /\ (pc = "panicked") = one.panicked

\* a call whose natural width is exactly max_width, returned after drawing
C4_Witness ==
    /\ pc = "done"
    /\ Drawing
    /\ Natural # <<>>
    /\ NaturalWidth = R(max_width)
    /\ canvas # hist.canvas0

(* C5 (as stated): a text that yields no glyph ends draw_text_mut in an    *)
(* out-of-bounds failure at the width computation; the call never          *)
(* completes normally, and no canvas pixel is read or written before.      *)
C5_EmptyLayoutIsOutOfBounds ==
    (Drawing /\ Natural = <<>>)
        => /\ pc \in {"draw_text", "draw_text_mut", "layout", "measure", "panicked"}
           /\ pc = "panicked" => panic = "index out of bounds"
           /\ hist.accessed = {}
           /\ pc # "draw_text" => canvas = hist.canvas0

(* C5 (amended): a text that yields no glyph ends draw_text_mut in a panic *)
(* at the width computation of line 61: an index out of bounds, or, in a   *)
(* build with overflow checks, the overflow of glyphs.len() - 1.  The call *)
(* never completes normally, lays out once, and no canvas pixel is read or *)
(* written before the panic.                                               *)
C5_EmptyLayoutPanicsAtMeasure ==
    (Drawing /\ Natural = <<>>)
        => /\ pc \in {"draw_text", "draw_text_mut", "layout", "measure", "panicked"}
           /\ pc = "panicked" =>
                panic \in {"index out of bounds", "attempt to subtract with overflow"}
           /\ pc = "panicked" => glyphs = <<>> /\ hist.layout_calls = 1
           /\ hist.accessed = {}
           /\ new_scale = <<>>
           /\ pc # "draw_text" => canvas = hist.canvas0

\* a text of control characters only, newline included, has panicked
C5_Witness ==
    /\ Drawing
    /\ pc = "panicked"
    /\ text = <<"\t", "\n">>
    /\ glyphs = <<>>

-----------------------------------------------------------------------------
(* Properties of layout_paragraph *)

IsGlyphChar(c) == c \notin {"\n", "\t"}
\* the characters the loop has been through
Done == SubSeq(text, 1, i - 1)
\* the place in text of the k-th character that is no control character
CharIndex(k) ==
    CHOOSE n \in 1 .. Len(text) :
        /\ IsGlyphChar(text[n])
        /\ Len(SelectSeq(SubSeq(text, 1, n), IsGlyphChar)) = k
NewlinesBefore(n) == Cardinality({m \in 1 .. n - 1 : text[m] = "\n"})
\* a newline comes before place n, with control characters only in between
FirstAfterNewline(n) ==
    \E m \in 1 .. n - 1 :
        text[m] = "\n" /\ \A q \in m + 1 .. n - 1 : ~IsGlyphChar(text[q])
\* the glyphs the running (or last) layout_paragraph has appended
Appended == SubSeq(glyphs, Len(hist.target0) + 1, Len(glyphs))

(* C6: layout_paragraph only appends to target: what target held stays in  *)
(* place, one glyph is appended per character that is no control character *)
(* in the order of those characters, and control characters, newline       *)
(* included, add none.                                                     *)
C6_LayoutOnlyAppends ==
    /\ Len(glyphs) = Len(hist.target0) + Len(SelectSeq(Done, IsGlyphChar))
    /\ SubSeq(glyphs, 1, Len(hist.target0)) = hist.target0
    /\ \A k \in 1 .. Len(Appended) : Appended[k].id = SelectSeq(Done, IsGlyphChar)[k]

\* layout_paragraph has returned, on a target that held a glyph and a text
\* with a glyph, a tab, a newline and a glyph
C6_Witness ==
    /\ op = "layout_paragraph"
    /\ pc = "done"
    /\ hist.target0 # <<>>
    /\ text = <<"a", "\t", "\n", "j">>
    /\ Len(glyphs) = 3

C8_Positions ==
    \A k \in 1 .. Len(Appended) :
        /\ FirstAfterNewline(CharIndex(k)) => Appended[k].position.x = position.x
        /\ \A j \in 1 .. k :
              Appended[k].position.y =
                  RAdd(Appended[j].position.y,
                       RMul(R(NewlinesBefore(CharIndex(k)) - NewlinesBefore(CharIndex(j))),
                            RAdd(height(font_scale), line_gap(font_scale))))
C8_ControlSteps ==
    (pc = "layout" /\ i <= Len(text) /\ i' = i + 1) =>
        /\ text[i] = "\t" => caret' = caret /\ glyphs' = glyphs
        /\ text[i] = "\n" =>
              /\ caret'.x = position.x
              /\ caret'.y = RAdd(caret.y,
                                 RAdd(height(font_scale), line_gap(font_scale)))
              /\ glyphs' = glyphs

(* C8: the first glyph placed after a newline has position.x equal to the  *)
(* original position.x, the position.y of a glyph exceeds that of a glyph  *)
(* of an earlier line by height + line_gap per newline between them, and a *)
(* control character other than newline changes neither caret.x nor        *)
(* caret.y.                                                                *)
C8_NewlineStartsLine == []C8_Positions /\ [][C8_ControlSteps]_vars

\* two glyphs with kerning on a line, a newline, and a glyph back at position.x
C8_Witness ==
    /\ op = "layout_paragraph"
    /\ pc = "done"
    /\ hist.target0 = <<>>
    /\ text = <<"a", "j", "\n", "j">>
    /\ RLt(position.x, glyphs[2].position.x)
    /\ glyphs[3].position.x = position.x
    /\ RLt(glyphs[2].position.y, glyphs[3].position.y)

\* a layout of the text into an empty list has returned: what line 61 measures
FreshLayout ==
    \/ op = "layout_paragraph" /\ pc = "done" /\ hist.target0 = <<>>
    \/ Drawing /\ pc = "measure"
\* advance + kerning is not negative, for every pair of glyphs
WellFormedFont ==
    \A p \in DOMAIN font.kern_unscaled :
        font.h_advance_unscaled[p[1]] + font.kern_unscaled[p] >= 0

(* C9 (as stated): the last glyph of the layout list is the rightmost: its *)
(* position.x is at least that of every other glyph of the list, for every *)
(* text with a renderable character, embedded newlines included.           *)
C9_LastGlyphIsRightmost ==
    (Drawing /\ pc = "measure" /\ glyphs # <<>> /\ WellFormedFont)
        => \A k \in 1 .. Len(glyphs) :
              RLe(glyphs[k].position.x, glyphs[Len(glyphs)].position.x)

(* C9 (amended): for every text without newline that has a renderable      *)
(* character, the last glyph of the layout list is the rightmost one, and  *)
(* position.x does not decrease along the list.                            *)
C9_LastGlyphIsRightmostOnOneLine ==
    (FreshLayout /\ glyphs # <<>> /\ WellFormedFont /\ SingleLine)
        => /\ \A k \in 1 .. Len(glyphs) :
                 RLe(glyphs[k].position.x, glyphs[Len(glyphs)].position.x)
           /\ \A k \in 1 .. Len(glyphs) - 1 :
                 RLe(glyphs[k].position.x, glyphs[k + 1].position.x)

\* draw_text_mut measures a one-line list of three glyphs, the last one
\* right of the others
C9_Witness ==
    /\ Drawing
    /\ pc = "measure"
    /\ SingleLine
    /\ Len(glyphs) = 3
    /\ RLt(glyphs[1].position.x, glyphs[2].position.x)
    /\ RLt(glyphs[2].position.x, glyphs[3].position.x)

-----------------------------------------------------------------------------
C10_Blend ==
    (pc = "raster" /\ pc' = "raster" /\ si' = si + 1
     /\ LET here == pixel_at(sample(glyphs[gi], si), px_bounds(glyphs[gi]))
        IN  in_bounds(canvas, here[1], here[2]))
    => LET smp == sample(glyphs[gi], si)
           at == pixel_at(smp, px_bounds(glyphs[gi]))
           old == canvas.px[at]
           new == canvas'.px[at]
           num == smp.v[1]
           den == smp.v[2]
       IN  /\ smp.v = R(1) => new = color
           /\ smp.v = R(0) => new = old
           /\ \A ch \in 1 .. 3 :
                 \* new is old * (1 - v) + color * v, cut to a whole number
                 /\ new[ch] * den <= old[ch] * (den - num) + color[ch] * num
                 /\ old[ch] * (den - num) + color[ch] * num < (new[ch] + 1) * den
           /\ \A p \in DOMAIN canvas.px : p # at => canvas'.px[p] = canvas.px[p]

(* C10: for each coverage sample (local_x, local_y, v) of an outlined      *)
(* glyph the pixel written is the weighted sum of the pixel that was there *)
(* with weight 1 - v and the text color with weight v: the color itself    *)
(* for v = 1, the old pixel for v = 0, and per channel the linear          *)
(* interpolation of the two (as a u8) in between.                          *)
C10_PixelIsWeightedSum == [][C10_Blend]_vars

\* a sample of coverage 1/2 was blended: a pixel between the old one and the color
C10_Witness ==
    /\ pc = "raster"
    /\ \E p \in hist.accessed :
          /\ canvas.px[p] # color
          /\ canvas.px[p] # hist.canvas0.px[p]
          /\ canvas.px[p][3] = (hist.canvas0.px[p][3] + color[3]) \div 2
    /\ \E p \in hist.accessed : canvas.px[p] = color

====
